---- MODULE Spec2Model ----
(***************************************************************************)
(* keras_autodoc.autogen.DocumentationGenerator: construction (the alias   *)
(* table), render (one reference -> one markdown block) and generate (the  *)
(* destination directory rebuilt from the template, the pages and the      *)
(* examples).  Dotted names are sequences of segments, a markdown block is *)
(* the sequence of its sub-blocks, a file is the sequence of its chunks.   *)
(***************************************************************************)
EXTENDS Integers, Sequences, FiniteSets, TLC

\* Longest list of references of one page in the configurations explored.
MaxRefs == 1
\* Number of generate calls made on one generator.
MaxCalls == 2

(***************************************************************************)
(* The code base the references point into (what import_object can reach). *)
(***************************************************************************)
Modules == {<<"pkg">>, <<"pkg", "mod">>, <<"lib">>}

\* Dense: a class of pkg.mod re-exported by pkg; call: its method;
\* f: a function of pkg.mod taking a Dense; g: a function of lib.
Objects == {"Dense", "call", "f", "g"}

NoObject == "missing"

Kind(o) ==
    CASE o = "Dense" -> "class"
      [] o = "call" -> "method"
      [] OTHER -> "function"

ModuleOf(o) == IF o = "g" THEN <<"lib">> ELSE <<"pkg", "mod">>

QualName(o) ==
    CASE o = "Dense" -> <<"Dense">>
      [] o = "call" -> <<"Dense", "call">>
      [] o = "f" -> <<"f">>
      [] OTHER -> <<"g">>

\* __doc__ as inspect.getdoc returns it: a sequence of lines, empty when the
\* object has no docstring or an empty one.
DocOf(o) ==
    CASE o = "Dense" -> <<"Dense layer.", "# Arguments", "units: int">>
      [] o = "f" -> <<"Apply a layer.", "# Returns", "A tensor.">>
      [] OTHER -> << >>

\* The classes that appear as annotation of the object's parameters.
ParamClasses(o) == IF o = "f" THEN <<"Dense">> ELSE << >>

\* Attribute lookup on a module (named by its path) or on a class (named by
\* its canonical path).
Member(owner, name) ==
    CASE owner = <<"pkg">> /\ name = "Dense" -> "Dense"
      [] owner = <<"pkg", "mod">> /\ name = "Dense" -> "Dense"
      [] owner = <<"pkg", "mod">> /\ name = "f" -> "f"
      [] owner = <<"lib">> /\ name = "g" -> "g"
      [] owner = <<"pkg", "mod", "Dense">> /\ name = "call" -> "call"
      [] OTHER -> NoObject

get_dotted_path(o) == ModuleOf(o) \o QualName(o)

get_name(o) == QualName(o)[Len(QualName(o))]

get_type(o) == Kind(o)

ismethod(o) == Kind(o) = "method"

\* A class test that every object passes.
MutIsClass(o) == TRUE

isclass(o) == Kind(o) = "class"

(***************************************************************************)
(* References: a dotted string or a live object.                           *)
(***************************************************************************)
StrRef(p) == [str |-> TRUE, path |-> p, obj |-> NoObject]

LiveRef(o) == [str |-> FALSE, path |-> << >>, obj |-> o]

StrRefs ==
    { StrRef(<<"pkg", "Dense">>),
      StrRef(<<"pkg", "mod", "Dense", "call">>),
      StrRef(<<"pkg", "mod", "f">>),
      StrRef(<<"lib", "g">>),
      StrRef(<<"pkg", "nope">>) }

LiveRefs == { LiveRef("call"), LiveRef("Dense") }

Elements == StrRefs \cup LiveRefs

\* The length of the longest prefix of p that names a module, 0 if none.
ModulePrefixLen(p) ==
    LET ns == { n \in 1..Len(p) : SubSeq(p, 1, n) \in Modules }
    IN  IF ns = {} THEN 0 ELSE CHOOSE n \in ns : \A m \in ns : m <= n

RECURSIVE FollowAttrs(_, _, _)
\* Attribute access for the segments of p from i on, starting at owner.
FollowAttrs(owner, p, i) ==
    IF i > Len(p) THEN NoObject
    ELSE LET o == Member(owner, p[i])
         IN  IF o = NoObject \/ i = Len(p) THEN o
             ELSE FollowAttrs(get_dotted_path(o), p, i + 1)

\* utils.import_object: the longest module prefix is imported, the rest is
\* attribute access; a live object is returned as it is.
import_object(element) ==
    IF ~element.str THEN [ok |-> TRUE, obj |-> element.obj]
    ELSE LET n == ModulePrefixLen(element.path)
             o == IF n = 0 THEN NoObject
                  ELSE FollowAttrs(SubSeq(element.path, 1, n), element.path, n + 1)
         IN  [ok |-> o # NoObject, obj |-> o]

(***************************************************************************)
(* Errors that reach the caller.                                           *)
(***************************************************************************)
NoError == [exc |-> "none"]

ConfigError(value) ==
    [exc |-> "ValueError", shown |-> <<value.repr, value.type>>]

ResolutionError(element) == [exc |-> "ImportError", ref |-> element]

AttributeError(name) == [exc |-> "AttributeError", attr |-> name]

FileError(step, path) == [exc |-> "OSError", step |-> step, path |-> path]

(***************************************************************************)
(* The generator (self), the destination directory and what the caller of  *)
(* the last call observed.                                                 *)
(***************************************************************************)
VARIABLES
    pages,          \* self.pages: the sequence of (path, value) items of the dict
    project_url,    \* self.project_url
    template_dir,   \* self.template_dir
    examples_dir,   \* self.examples_dir
    class_aliases,  \* self.class_aliases: canonical class path -> reference
    pc,             \* "new", "dead" (constructor raised), "idle", or the step of generate
    error,          \* the exception the last call raised to its caller, NoError if none
    ret,            \* what the last render call returned and which hooks it called
    dest,           \* the destination directory
    pageIdx,        \* generate: the item of self.pages the loop is at
    trace,          \* generate: the file-system steps the current call has done
    calls,          \* number of generate calls started
    snap            \* the destination directory as the first generate call left it

vars ==
    <<pages, project_url, template_dir, examples_dir, class_aliases, pc, error,
      ret, dest, pageIdx, trace, calls, snap>>

(***************************************************************************)
(* Rendering one object.                                                   *)
(***************************************************************************)
NoOverride == [given |-> FALSE, name |-> << >>]

Override(p) == [given |-> TRUE, name |-> p]

Separator == [kind |-> "sep"]

\* The slice [-1:] in place of [-2:].
MutLastTwoSegments(p) == SubSeq(p, Len(p), Len(p))

\* '.'.join(element.split('.')[-2:])
LastTwoSegments(p) == IF Len(p) <= 2 THEN p ELSE SubSeq(p, Len(p) - 1, Len(p))

\* utils.make_source_link: the link to the object's source under the project
\* URL, taken from the entry of the object's top-level package when the URL is
\* a mapping; the empty text when no entry matches.
make_source_link(object_, url) ==
    LET top == ModuleOf(object_)[1]
    IN  IF url.kind = "str"
        THEN [kind |-> "link", base |-> url.base, module |-> ModuleOf(object_)]
        ELSE IF top \in DOMAIN url.entries
        THEN [kind |-> "link", base |-> url.entries[top], module |-> ModuleOf(object_)]
        ELSE [kind |-> "empty"]

\* get_signatures.get_signature: the name the signature is displayed under
\* (the override when one is given) and, for each parameter annotated with a
\* class, the alias of that class when the alias table has one.
get_signature(object_, aliases, override) ==
    [ start  |-> IF override.given THEN override.name
                 ELSE IF ismethod(object_) THEN LastTwoSegments(get_dotted_path(object_))
                 ELSE get_dotted_path(object_),
      params |-> [ i \in 1..Len(ParamClasses(object_)) |->
                     LET c == get_dotted_path(ParamClasses(object_)[i])
                     IN  IF c \in DOMAIN aliases THEN aliases[c] ELSE StrRef(c) ] ]

\* utils.code_snippet
code_snippet(signature) == [kind |-> "code", signature |-> signature]

\* docstring.process_docstring: the section lines of the docstring dialect
\* become markdown.
MarkdownLine(l) ==
    CASE l = "# Arguments" -> "__Arguments__"
      [] l = "# Returns" -> "__Returns__"
      [] l = "units: int" -> "- __units__: int"
      [] OTHER -> l

docstring_process_docstring(docstring) ==
    [kind |-> "doc", lines |-> [i \in 1..Len(docstring) |-> MarkdownLine(docstring[i])]]

process_docstring(docstring) == docstring_process_docstring(docstring)

process_signature(signature) == signature

HookCall(name, arg) == [hook |-> name, arg |-> arg]

\* The source link added whether or not a project URL is set.
MutRenderLinkAlways(object_, signature_override) ==
    LET link == <<make_source_link(object_, project_url)>>
        raw == get_signature(object_, class_aliases, signature_override)
        signature == process_signature(raw)
        head == << [kind |-> "heading", name |-> get_name(object_),
                    type |-> get_type(object_)],
                   code_snippet(signature) >>
        docstring == DocOf(object_)
        body == IF docstring # << >> THEN <<process_docstring(docstring)>> ELSE << >>
    IN  [ text  |-> link \o head \o body \o <<Separator>>,
          hooks |-> <<HookCall("process_signature", raw)>>
                    \o (IF docstring # << >>
                        THEN <<HookCall("process_docstring", docstring)>>
                        ELSE << >>) ]

\* The docstring processed and added without the test that there is one.
MutRenderDocAlways(object_, signature_override) ==
    LET link == IF project_url.kind # "none"
                THEN <<make_source_link(object_, project_url)>>
                ELSE << >>
        raw == get_signature(object_, class_aliases, signature_override)
        signature == process_signature(raw)
        head == << [kind |-> "heading", name |-> get_name(object_),
                    type |-> get_type(object_)],
                   code_snippet(signature) >>
        docstring == DocOf(object_)
    IN  [ text  |-> link \o head \o <<process_docstring(docstring)>> \o <<Separator>>,
          hooks |-> << HookCall("process_signature", raw),
                       HookCall("process_docstring", docstring) >> ]

\* The block (the sub-blocks joined by blank lines, then the separator) and
\* the hooks called while building it, in call order.
_render_from_object(object_, signature_override) ==
    LET link == IF project_url.kind # "none"
                THEN <<make_source_link(object_, project_url)>>
                ELSE << >>
        raw == get_signature(object_, class_aliases, signature_override)
        signature == process_signature(raw)
        head == << [kind |-> "heading", name |-> get_name(object_),
                    type |-> get_type(object_)],
                   code_snippet(signature) >>
        docstring == DocOf(object_)
        body == IF docstring # << >> THEN <<process_docstring(docstring)>> ELSE << >>
    IN  [ text  |-> link \o head \o body \o <<Separator>>,
          hooks |-> <<HookCall("process_signature", raw)>>
                    \o (IF docstring # << >>
                        THEN <<HookCall("process_docstring", docstring)>>
                        ELSE << >>) ]

NoReturn ==
    [called |-> FALSE, element |-> LiveRef(NoObject), object_ |-> NoObject,
     override |-> NoOverride, text |-> << >>, hooks |-> << >>]

\* render(element): the object and the display override, then the block.
render(element) ==
    LET r == import_object(element)
        object_ == r.obj
        signature_override ==
            IF element.str
            THEN IF ismethod(object_)
                 THEN Override(LastTwoSegments(element.path))
                 ELSE Override(element.path)
            ELSE NoOverride
        b == _render_from_object(object_, signature_override)
    IN  IF ~r.ok
        THEN [error |-> ResolutionError(element), ret |-> NoReturn]
        ELSE [error |-> NoError,
              ret |-> [called |-> TRUE, element |-> element, object_ |-> object_,
                       override |-> signature_override, text |-> b.text,
                       hooks |-> b.hooks]]

(***************************************************************************)
(* Construction.                                                           *)
(***************************************************************************)
\* d[k] = v
Put(d, k, v) == [x \in DOMAIN d \cup {k} |-> IF x = k THEN v ELSE d[x]]

NoAliases == [x \in {} |-> LiveRef(NoObject)]

RECURSIVE FillElements(_, _, _)
\* The inner loop of _fill_aliases from the j-th element of one page on.
FillElements(aliases, items, j) ==
    IF j > Len(items) THEN [error |-> NoError, aliases |-> aliases]
    ELSE LET r == import_object(items[j])
         IN  IF ~r.ok
             THEN [error |-> ResolutionError(items[j]), aliases |-> aliases]
             ELSE IF ~isclass(r.obj)
             THEN FillElements(aliases, items, j + 1)
             ELSE FillElements(Put(aliases, get_dotted_path(r.obj), items[j]),
                               items, j + 1)

RECURSIVE MutFillPages(_, _, _)
\* The outer loop without the test of the value's type.
MutFillPages(pgs, aliases, i) ==
    IF i > Len(pgs) THEN [error |-> NoError, aliases |-> aliases]
    ELSE LET r == FillElements(aliases, pgs[i].value.items, 1)
         IN  IF r.error # NoError THEN r
             ELSE MutFillPages(pgs, r.aliases, i + 1)

RECURSIVE FillPages(_, _, _)
\* The outer loop of _fill_aliases from the i-th page on.
FillPages(pgs, aliases, i) ==
    IF i > Len(pgs) THEN [error |-> NoError, aliases |-> aliases]
    ELSE LET list_elements == pgs[i].value
         IN  IF list_elements.type \notin {"list", "tuple"}
             THEN [error |-> ConfigError(list_elements), aliases |-> aliases]
             ELSE LET r == FillElements(aliases, list_elements.items, 1)
                  IN  IF r.error # NoError THEN r
                      ELSE FillPages(pgs, r.aliases, i + 1)

_fill_aliases == FillPages(pages, NoAliases, 1)

\* __init__: the fields are set from the arguments, then the alias table is
\* filled; an exception of _fill_aliases leaves no generator.
Construct ==
    /\ pc = "new"
    /\ class_aliases' = _fill_aliases.aliases
    /\ error' = _fill_aliases.error
    /\ pc' = IF _fill_aliases.error = NoError THEN "idle" ELSE "dead"
    /\ UNCHANGED <<pages, project_url, template_dir, examples_dir, ret, dest,
                   pageIdx, trace, calls, snap>>

\* A call of render on the constructed generator, outside generate.
Render ==
    /\ pc = "idle"
    /\ \E element \in Elements :
          /\ error' = render(element).error
          /\ ret' = render(element).ret
    /\ UNCHANGED <<pages, project_url, template_dir, examples_dir, class_aliases,
                   pc, dest, pageIdx, trace, calls, snap>>

(***************************************************************************)
(* The file system: the template and examples directories (never written)  *)
(* and the destination directory.                                          *)
(***************************************************************************)
NoDir == "None"

\* `if self.template_dir:`
Truthy(dir) == dir \notin {NoDir, ""}

Static(s) == [kind |-> "static", s |-> s]

Marker == [kind |-> "marker"]

Absent == [origin |-> "absent", body |-> << >>]

File(origin, body) == [origin |-> origin, body |-> body]

DestPaths == {"a.md", "b.md", "index.md", "junk.txt", "examples"}

NoFiles == [p \in DestPaths |-> Absent]

\* The directories that exist beside the destination.
DirExists(dir) == dir \in {"tpl_full", "tpl_partial", "examples_src"}

\* The files of a template directory.
TemplateTree(dir) ==
    [p \in DestPaths |->
        CASE p = "a.md" ->
               File("template", <<Static("# A"), Marker, Static("end")>>)
          [] p = "b.md" /\ dir = "tpl_full" -> File("template", <<Marker>>)
          [] p = "index.md" -> File("template", <<Static("# Index")>>)
          [] OTHER -> Absent]

\* A destination directory left by something else.
OldTree ==
    [p \in DestPaths |->
        CASE p = "a.md" -> File("old", <<Static("old"), Marker>>)
          [] p = "junk.txt" -> File("old", <<Static("junk")>>)
          [] p = "examples" -> File("old", <<Static("old.py")>>)
          [] OTHER -> Absent]

NoDest == [exists |-> FALSE, locked |-> FALSE, files |-> NoFiles]

\* The existence check answering no for a directory that is there.
MutExists(d) == FALSE

\* dest_dir.exists()
exists(d) == d.exists

\* shutil.rmtree(dest_dir): raises when the directory cannot be removed.
rmtree(d) ==
    IF d.locked THEN [error |-> FileError("rmtree", "."), dest |-> d]
    ELSE [error |-> NoError, dest |-> NoDest]

\* shutil.copytree(src, dest_dir): raises when src is missing or the
\* destination exists; otherwise the destination is a copy of src.
copytree(src, d) ==
    IF ~DirExists(src) \/ d.exists
    THEN [error |-> FileError("copytree", src), dest |-> d]
    ELSE [error |-> NoError,
          dest |-> [exists |-> TRUE, locked |-> FALSE, files |-> TemplateTree(src)]]

\* The index of the first marker of a file body, 0 if it has none.
MarkerAt(body) ==
    LET is == { i \in 1..Len(body) : body[i] = Marker }
    IN  IF is = {} THEN 0 ELSE CHOOSE i \in is : \A j \in is : i <= j

\* utils.insert_in_file(markdown_text, dest_dir / file_path): the text takes
\* the place of the marker of the existing file; raises when the file does not
\* exist.
insert_in_file(markdown_text, file_path, d) ==
    LET f == d.files[file_path]
        k == MarkerAt(f.body)
        body == IF k = 0 THEN f.body
                ELSE SubSeq(f.body, 1, k - 1) \o markdown_text
                     \o SubSeq(f.body, k + 1, Len(f.body))
    IN  IF ~d.exists \/ f = Absent
        THEN [error |-> FileError("insert_in_file", file_path), dest |-> d]
        ELSE [error |-> NoError,
              dest |-> [d EXCEPT !.files[file_path] = File(f.origin, body)]]

\* examples.copy_examples(examples_dir, dest_dir / "examples"): a copy of the
\* examples tree under the destination; raises when examples_dir is missing.
copy_examples(src, d) ==
    IF ~DirExists(src)
    THEN [error |-> FileError("copy_examples", src), dest |-> d]
    ELSE [error |-> NoError,
          dest |-> [d EXCEPT !.exists = TRUE,
                             !.files["examples"] =
                                 File("examples", <<Static("example.py")>>)]]

(***************************************************************************)
(* generate(dest_dir), one action per statement group.                     *)
(***************************************************************************)
\* The attributes an instance of the class has.
Attributes ==
    {"pages", "project_url", "template_dir", "examples_dir", "class_aliases",
     "__init__", "generate", "process_docstring", "process_signature", "render",
     "_render_from_object", "_fill_aliases"}

Step(op, path, text) == [op |-> op, path |-> path, text |-> text]

RECURSIVE RenderAll(_, _)
\* markdown_text after the inner loop from the j-th element on.
RenderAll(elements, j) ==
    IF j > Len(elements) THEN [error |-> NoError, text |-> << >>]
    ELSE IF "_render" \notin Attributes
    THEN [error |-> AttributeError("_render"), text |-> << >>]
    ELSE LET r == render(elements[j])
             rest == RenderAll(elements, j + 1)
         IN  IF r.error # NoError THEN [error |-> r.error, text |-> << >>]
             ELSE IF rest.error # NoError THEN rest
             ELSE [error |-> NoError, text |-> r.ret.text \o rest.text]

\* A call that removes what it wrote when it raises.
MutEndCall(e, d, n) ==
    /\ pc' = "idle"
    /\ error' = e
    /\ dest' = IF e # NoError THEN NoDest ELSE d
    /\ snap' = IF n = 1 THEN dest' ELSE snap

\* The n-th call ends: it returned (e = NoError) or raised e to the caller.
EndCall(e, d, n) ==
    /\ pc' = "idle"
    /\ error' = e
    /\ dest' = d
    /\ snap' = IF n = 1 THEN d ELSE snap

\* The examples copy placed inside the loop: it follows the first page.
MutAfterPage(i) == IF i > Len(pages) \/ i > 1 THEN "examples" ELSE "pages"

\* Where the call goes after each page of the loop, the i-th being next.
AfterPage(i) == IF i > Len(pages) THEN "examples" ELSE "pages"

\* The template copy written as the else branch of the removal.
MutAfterClean == IF dest.exists THEN AfterPage(1) ELSE "templates"

\* Where the call goes once the destination is cleaned.
AfterClean == "templates"

\* Lines 53-56: the call starts and removes an existing destination.
GenerateClean ==
    /\ pc = "idle"
    /\ calls < MaxCalls
    /\ calls' = calls + 1
    /\ ret' = NoReturn
    /\ pageIdx' = 1
    /\ IF exists(dest)
       THEN LET r == rmtree(dest)
            IN  IF r.error # NoError
                THEN /\ EndCall(r.error, r.dest, calls + 1)
                     /\ trace' = << >>
                ELSE /\ pc' = AfterClean
                     /\ error' = NoError
                     /\ dest' = r.dest
                     /\ trace' = <<Step("rmtree", ".", << >>)>>
                     /\ UNCHANGED snap
       ELSE /\ pc' = AfterClean
            /\ error' = NoError
            /\ trace' = << >>
            /\ UNCHANGED <<dest, snap>>
    /\ UNCHANGED <<pages, project_url, template_dir, examples_dir, class_aliases>>

\* Lines 58-60: the template directory is copied.
GenerateTemplates ==
    /\ pc = "templates"
    /\ IF Truthy(template_dir)
       THEN LET r == copytree(template_dir, dest)
            IN  IF r.error # NoError
                THEN /\ EndCall(r.error, r.dest, calls)
                     /\ UNCHANGED trace
                ELSE /\ pc' = AfterPage(1)
                     /\ dest' = r.dest
                     /\ trace' = Append(trace, Step("copytree", template_dir, << >>))
                     /\ UNCHANGED <<error, snap>>
       ELSE /\ pc' = AfterPage(1)
            /\ UNCHANGED <<dest, trace, error, snap>>
    /\ UNCHANGED <<pages, project_url, template_dir, examples_dir, class_aliases,
                   ret, calls, pageIdx>>

\* Lines 62-66, one iteration: the page's references are rendered and the
\* text is inserted in the page's file.
GeneratePage ==
    /\ pc = "pages"
    /\ LET file_path == pages[pageIdx].path
           elements == pages[pageIdx].value.items
           m == RenderAll(elements, 1)
           r == insert_in_file(m.text, file_path, dest)
       IN  IF m.error # NoError
           THEN /\ EndCall(m.error, dest, calls)
                /\ UNCHANGED <<trace, pageIdx>>
           ELSE IF r.error # NoError
           THEN /\ EndCall(r.error, r.dest, calls)
                /\ UNCHANGED <<trace, pageIdx>>
           ELSE /\ pc' = AfterPage(pageIdx + 1)
                /\ pageIdx' = pageIdx + 1
                /\ dest' = r.dest
                /\ trace' = Append(trace, Step("insert_in_file", file_path, m.text))
                /\ UNCHANGED <<error, snap>>
    /\ UNCHANGED <<pages, project_url, template_dir, examples_dir, class_aliases,
                   ret, calls>>

\* Lines 68-69: the examples are copied and the call returns.
GenerateExamples ==
    /\ pc = "examples"
    /\ IF examples_dir # NoDir
       THEN LET r == copy_examples(examples_dir, dest)
            IN  /\ EndCall(r.error, r.dest, calls)
                /\ trace' = IF r.error # NoError THEN trace
                            ELSE Append(trace, Step("copy_examples", examples_dir, << >>))
       ELSE /\ EndCall(NoError, dest, calls)
            /\ UNCHANGED trace
    /\ UNCHANGED <<pages, project_url, template_dir, examples_dir, class_aliases,
                   ret, calls, pageIdx>>

(***************************************************************************)
(* The configurations and destinations explored.                           *)
(***************************************************************************)
SeqsUpTo(S, n) == UNION { [1..k -> S] : k \in 0..n }

ListValue(type, items) == [type |-> type, repr |-> "", items |-> items]

\* Page values that are no list: a string and a dict.
BadValues ==
    { [type |-> "str", repr |-> "pkg.Dense", items |-> << >>],
      [type |-> "dict", repr |-> "{}", items |-> << >>] }

ListValues(elems) == { ListValue("list", l) : l \in SeqsUpTo(elems, MaxRefs) }

TupleValues ==
    { ListValue("tuple", l) :
        l \in {<< >>, <<StrRef(<<"pkg", "Dense">>)>>, <<StrRef(<<"pkg", "nope">>)>>} }

\* The dicts with keys in the order of one of keyOrders and values in values.
PageDicts(keyOrders, values) ==
    UNION { { [i \in 1..Len(ks) |-> [path |-> ks[i], value |-> vs[i]]] :
                vs \in [1..Len(ks) -> values] } : ks \in keyOrders }

NoUrl == [kind |-> "none", base |-> "", entries |-> NoAliases]

Urls ==
    { NoUrl,
      [kind |-> "str", base |-> "https://host/pkg", entries |-> NoAliases],
      [kind |-> "map", base |-> "", entries |-> [pkg |-> "https://host/pkg"]],
      [kind |-> "map", base |-> "",
       entries |-> [pkg |-> "https://host/pkg", lib |-> "https://host/lib"]] }

InitCommon ==
    /\ class_aliases = NoAliases
    /\ pc = "new"
    /\ error = NoError
    /\ ret = NoReturn
    /\ pageIdx = 0
    /\ trace = << >>
    /\ calls = 0
    /\ snap = NoDest

\* The references used by the pages in the file-system runs.
GenElements ==
    { StrRef(<<"pkg", "Dense">>), StrRef(<<"pkg", "mod", "Dense", "call">>),
      LiveRef("Dense") }

Init ==
    /\ InitCommon
    /\ pages \in PageDicts({<< >>, <<"a.md">>, <<"a.md", "b.md">>, <<"b.md", "a.md">>},
                           ListValues(GenElements))
    /\ project_url \in {NoUrl}
    /\ template_dir \in {NoDir, "tpl_full", "tpl_partial", "tpl_missing"}
    /\ examples_dir \in {NoDir, "examples_src", "examples_missing"}
    /\ dest \in { NoDest,
                  [exists |-> TRUE, locked |-> FALSE, files |-> OldTree],
                  [exists |-> TRUE, locked |-> TRUE, files |-> OldTree] }

Next ==
    \/ Construct
    \/ GenerateClean
    \/ GenerateTemplates
    \/ GeneratePage
    \/ GenerateExamples

Spec == Init /\ [][Next]_vars

\* Construction and rendering alone, over every page value and project URL.
InitPages ==
    /\ InitCommon
    /\ pages \in PageDicts({<< >>, <<"a.md">>, <<"a.md", "b.md">>},
                           ListValues(Elements) \cup TupleValues \cup BadValues)
    /\ project_url \in Urls
    /\ template_dir = NoDir
    /\ examples_dir = NoDir
    /\ dest = NoDest

NextPages == Construct \/ Render

SpecPages == InitPages /\ [][NextPages]_vars

\* A generator's whole life: construction, render calls and generate calls,
\* with a template and examples in place.
LifeDest == [exists |-> TRUE, locked |-> FALSE, files |-> OldTree]

InitLife ==
    /\ InitCommon
    /\ pages \in PageDicts({<< >>, <<"a.md">>, <<"a.md", "b.md">>},
                           ListValues(Elements) \cup TupleValues \cup BadValues)
    /\ project_url \in {NoUrl, [kind |-> "map", base |-> "",
                                 entries |-> [pkg |-> "https://host/pkg"]]}
    /\ template_dir = "tpl_full"
    /\ examples_dir = "examples_src"
    /\ dest = LifeDest

NextLife == Next \/ Render

SpecLife == InitLife /\ [][NextLife]_vars

(***************************************************************************)
(* Properties of generate.                                                 *)
(***************************************************************************)
InsertSteps(t) == SelectSeq(t, LAMBDA st : st.op = "insert_in_file")

HasStep(t, op) == \E i \in 1..Len(t) : t[i].op = op

RECURSIVE ConcatBlocks(_, _)
\* The blocks of the references from the j-th on, one after the other.
ConcatBlocks(elements, j) ==
    IF j > Len(elements) THEN << >>
    ELSE render(elements[j]).ret.text \o ConcatBlocks(elements, j + 1)

\* Nothing in the file system can make a step of generate fail.
FileSystemInOrder ==
    /\ template_dir = "tpl_full"
    /\ examples_dir # "examples_missing"
    /\ ~dest.locked

\* C1: when a generate call has ended, with the template holding every page
\* and nothing wrong in the file system, it has returned and has made, for
\* every configured page in configuration order, exactly one insertion, of
\* the page's rendered blocks concatenated in the order of the page's list,
\* into the page's file.
C1_EveryPageRenderedAndInserted ==
    (pc = "idle" /\ calls >= 1 /\ FileSystemInOrder) =>
        /\ error = NoError
        /\ InsertSteps(trace) =
              [ i \in 1..Len(pages) |->
                  Step("insert_in_file", pages[i].path,
                       ConcatBlocks(pages[i].value.items, 1)) ]

StepRank(op) ==
    CASE op = "rmtree" -> 1
      [] op = "copytree" -> 2
      [] op = "insert_in_file" -> 3
      [] OTHER -> 4

\* C2: the steps a generate call has done are, in this order, the removal of
\* the destination, the template copy (only with a template directory
\* configured), the page insertions in configuration order, and the examples
\* copy (only with an examples directory configured); with a template
\* directory configured no insertion is done without the template copy before
\* it, and the examples copy is only done once every page is inserted.
C2_StepsInFixedOrder ==
    LET ins == InsertSteps(trace)
    IN  /\ \A i, j \in 1..Len(trace) :
              i < j => /\ StepRank(trace[i].op) <= StepRank(trace[j].op)
                       /\ StepRank(trace[i].op) = StepRank(trace[j].op)
                              => trace[i].op = "insert_in_file"
        /\ Len(ins) <= Len(pages)
        /\ \A k \in 1..Len(ins) : k <= Len(pages) => ins[k].path = pages[k].path
        /\ HasStep(trace, "copytree") => Truthy(template_dir)
        /\ (HasStep(trace, "insert_in_file") /\ Truthy(template_dir))
              => HasStep(trace, "copytree")
        /\ HasStep(trace, "copy_examples")
              => (examples_dir # NoDir /\ Len(ins) = Len(pages))

\* A call that removed the destination, copied the template, inserted two
\* pages and copied the examples.
C2_Witness ==
    /\ pc = "idle"
    /\ Len(pages) = 2
    /\ Len(trace) = 5
    /\ trace[1].op = "rmtree"
    /\ trace[2].op = "copytree"
    /\ trace[5].op = "copy_examples"

RmtreeFailed == error.exc = "OSError" /\ error.step = "rmtree"

\* C3: once a generate call is past the removal of the destination, also
\* after it has ended, no file that was in the destination before is left,
\* and a destination that exists was created by a copy of this call.
C3_OldFilesGone ==
    (calls >= 1 /\ ~RmtreeFailed) =>
        /\ \A p \in DestPaths : dest.files[p].origin # "old"
        /\ dest.exists => (HasStep(trace, "copytree") \/ HasStep(trace, "copy_examples"))

\* A first call on a destination that held other files has returned and the
\* destination exists again.
C3_Witness ==
    /\ pc = "idle"
    /\ calls = 1
    /\ error = NoError
    /\ HasStep(trace, "rmtree")
    /\ dest.exists
    /\ dest.files["a.md"].origin = "template"

\* C4: when the second or a later generate call on a generator has ended, the
\* destination directory is as the first call left it.
C4_GenerateIdempotent == (pc = "idle" /\ calls >= 2) => dest = snap

\* The second call has returned, as the first did, on a destination that
\* held other files at first, with a page filled in.
C4_Witness ==
    /\ pc = "idle"
    /\ calls = 2
    /\ error = NoError
    /\ HasStep(trace, "rmtree")
    /\ HasStep(trace, "insert_in_file")
    /\ dest.exists

\* C8: a generate call that raises ends at that step with the error at the
\* caller: the failing step adds nothing to the steps done and leaves the
\* destination as the steps before it made it, no step runs while an error is
\* pending, and nothing changes the destination until another call starts.
C8_FailureAborts ==
    /\ [](pc \in {"templates", "pages", "examples"} => error = NoError)
    /\ [][ (pc # "new" /\ error' # NoError) =>
              /\ pc' = "idle"
              /\ dest' = dest
              /\ calls' = calls => trace' = trace ]_vars

\* A call raised on its second page after inserting the first one.
C8_Witness ==
    /\ pc = "idle"
    /\ error.exc = "AttributeError"
    /\ HasStep(trace, "copytree")
    /\ HasStep(trace, "insert_in_file")
    /\ dest.exists

(***************************************************************************)
(* Properties of construction.                                             *)
(***************************************************************************)
BadPages == { i \in 1..Len(pages) : pages[i].value.type \notin {"list", "tuple"} }

FirstBad == CHOOSE i \in BadPages : \A j \in BadPages : i <= j

ConfiguredRefs ==
    UNION { { pages[i].value.items[j] : j \in 1..Len(pages[i].value.items) } :
              i \in 1..Len(pages) }

Resolves(e) == import_object(e).ok

Shown(e) == { e.shown[k] : k \in DOMAIN e.shown }

\* C5 as claimed: with a page value that is no list or tuple the constructor
\* raises a configuration error that names the page path of that value and
\* the type of the value, and no generate step is ever done; with lists and
\* tuples only, no configuration error is raised.
C5_ConfigErrorNamesKey ==
    pc # "new" =>
        /\ BadPages # {} =>
              /\ pc = "dead" /\ calls = 0 /\ trace = << >> /\ dest = LifeDest
              /\ error.exc = "ValueError"
              /\ pages[FirstBad].path \in Shown(error)
              /\ pages[FirstBad].value.type \in Shown(error)
        /\ BadPages = {} => error.exc # "ValueError"

\* C5 amended: with a page value that is no list or tuple the constructor
\* raises and no generate step is ever done; the error is the configuration
\* error showing the first such value and its type (not its page path) when
\* every reference of the pages before it resolves, and the resolution error
\* otherwise; with lists and tuples only, no configuration error is raised.
C5_ConfigErrorShowsValue ==
    pc # "new" =>
        /\ BadPages # {} =>
              /\ pc = "dead" /\ calls = 0 /\ trace = << >> /\ dest = LifeDest
              /\ IF \A i \in 1..Len(pages) : \A j \in 1..Len(pages[i].value.items) :
                        i < FirstBad => Resolves(pages[i].value.items[j])
                 THEN /\ error.exc = "ValueError"
                      /\ error.shown = << pages[FirstBad].value.repr,
                                          pages[FirstBad].value.type >>
                      /\ pages[FirstBad].path \notin Shown(error)
                 ELSE error.exc = "ImportError"
        /\ BadPages = {} => error.exc # "ValueError"

\* The constructor rejected the value of the second page after going through
\* the references of the first.
C5_Witness ==
    /\ pc = "dead"
    /\ error.exc = "ValueError"
    /\ Len(pages) = 2
    /\ FirstBad = 2
    /\ pages[1].value.items # << >>

ClassRefs == { e \in ConfiguredRefs : Resolves(e) /\ Kind(import_object(e).obj) = "class" }

\* C9: on a constructed generator the keys of the alias table are the
\* canonical paths of the configured references that resolve to a class, each
\* mapped to a configured reference resolving to that class (references to
\* functions and methods add none), and after construction no step changes
\* the alias table or the pages.
C9_AliasTableFixed ==
    /\ [](pc \notin {"new", "dead"} =>
            /\ DOMAIN class_aliases
                  = { ModuleOf(import_object(e).obj) \o QualName(import_object(e).obj) :
                        e \in ClassRefs }
            /\ \A k \in DOMAIN class_aliases :
                  /\ class_aliases[k] \in ClassRefs
                  /\ LET o == import_object(class_aliases[k]).obj
                     IN  ModuleOf(o) \o QualName(o) = k)
    /\ [][pc # "new" => (class_aliases' = class_aliases /\ pages' = pages)]_vars

\* A render call after a generate call on a generator whose alias table maps
\* a class to a name other than its canonical path, with a function and a
\* method among the references.
C9_Witness ==
    /\ pc = "idle"
    /\ calls >= 1
    /\ ret.called
    /\ \E k \in DOMAIN class_aliases : class_aliases[k] = StrRef(<<"pkg", "Dense">>)
    /\ \E e \in ConfiguredRefs : Resolves(e) /\ Kind(import_object(e).obj) # "class"

(***************************************************************************)
(* Properties of render.                                                   *)
(***************************************************************************)
Kinds(text) == { text[i].kind : i \in 1..Len(text) }

TopPackage(o) == ModuleOf(o)[1]

\* C6: a block rendered without project URL has no source-link sub-block
\* (it starts with the heading); with a per-package mapping the block starts
\* with the link built from the entry of the object's top-level package, and
\* has no source link when the mapping has no entry for that package.
C6_SourceLink ==
    ret.called =>
        /\ project_url.kind = "none" =>
              ("link" \notin Kinds(ret.text) /\ ret.text[1].kind = "heading")
        /\ (project_url.kind = "map"
              /\ TopPackage(ret.object_) \in DOMAIN project_url.entries) =>
              /\ ret.text[1].kind = "link"
              /\ ret.text[1].base = project_url.entries[TopPackage(ret.object_)]
              /\ ret.text[2].kind = "heading"
        /\ (project_url.kind = "map"
              /\ TopPackage(ret.object_) \notin DOMAIN project_url.entries) =>
              "link" \notin Kinds(ret.text)

\* An object of a package the URL mapping has no entry for was rendered.
C6_Witness ==
    /\ ret.called
    /\ project_url.kind = "map"
    /\ TopPackage(ret.object_) \notin DOMAIN project_url.entries

\* The name the signature of the block is displayed under.
Displayed(text) ==
    LET i == CHOOSE k \in 1..Len(text) : text[k].kind = "code"
    IN  text[i].signature.start

\* C7: a dotted reference to a method is rendered with the display override,
\* and shown in the block, under its last two segments; a dotted reference to
\* a function or class under the reference as written; a live object gets no
\* override.
C7_MethodDisplay ==
    ret.called =>
        LET p == ret.element.path
        IN  /\ (ret.element.str /\ Kind(ret.object_) = "method") =>
                  /\ ret.override = Override(<<p[Len(p) - 1], p[Len(p)]>>)
                  /\ Displayed(ret.text) = <<p[Len(p) - 1], p[Len(p)]>>
                  /\ Displayed(ret.text) # p
            /\ (ret.element.str /\ Kind(ret.object_) # "method") =>
                  /\ ret.override = Override(p)
                  /\ Displayed(ret.text) = p
            /\ ~ret.element.str => ret.override = NoOverride

\* A method named by a dotted path of more than two segments was rendered.
C7_Witness ==
    /\ ret.called
    /\ ret.element.str
    /\ Kind(ret.object_) = "method"
    /\ Len(ret.element.path) > 2

\* C10: a block is, after the source-link sub-block when a project URL is
\* set, the heading with the object's name and kind, the code-formatted
\* signature that process_signature was called on (and returned unchanged),
\* the docstring processed by process_docstring exactly when the object has a
\* docstring (the hook is not called otherwise), and the separator last.
C10_BlockLayout ==
    ret.called =>
        LET t == ret.text
            k == IF project_url.kind = "none" THEN 0 ELSE 1
            d == DocOf(ret.object_)
            n == IF d # << >> THEN 1 ELSE 0
        IN  /\ Len(t) = k + 2 + n + 1
            /\ k = 1 => t[1].kind \in {"link", "empty"}
            /\ t[k + 1] = [kind |-> "heading", name |-> QualName(ret.object_)[Len(QualName(ret.object_))],
                           type |-> Kind(ret.object_)]
            /\ ret.hooks[1].hook = "process_signature"
            /\ t[k + 2] = [kind |-> "code", signature |-> ret.hooks[1].arg]
            /\ d # << >> =>
                  /\ t[k + 3] = docstring_process_docstring(d)
                  /\ ret.hooks = << ret.hooks[1], HookCall("process_docstring", d) >>
            /\ d = << >> => Len(ret.hooks) = 1
            /\ t[Len(t)] = Separator
            /\ \A i \in 1..Len(t) : i > k => t[i].kind \notin {"link", "empty"}

\* An object with a docstring was rendered with a project URL set.
C10_Witness ==
    /\ ret.called
    /\ DocOf(ret.object_) # << >>
    /\ project_url.kind # "none"
    /\ Len(ret.text) = 5

====
